---- MODULE Spec2Model ----
(***************************************************************************)
(* Model of resnet_act_utils.py: the block assembler stack_blocks and its  *)
(* per-unit helper unit_act, the heatmap helpers sact_image_heatmap and    *)
(* sact_map, and export_to_h5.  The adaptive computation controller (the   *)
(* act module) is not part of the sources at hand; it is modelled from the *)
(* specification's algorithm (section 4.2).                                *)
(*                                                                         *)
(* Tensors are abstract.  An activation tensor is the sequence of unit     *)
(* applications that produced it (<<>> is the network input); where only   *)
(* the shape of a tensor matters (heatmaps) a tensor is its shape.         *)
(* Probabilities are fixed-point integers, One standing for 1.0.           *)
(***************************************************************************)
EXTENDS Integers, Sequences, FiniteSets, TLC

\* ------------------------------------------------------------------ bounds
MaxBlocks == 2
MaxUnits == 3

ScopeNames == {"block1", "block2", "block3"}

\* Python's None for an optional tensor, and a present value.
None == <<>>
Some(x) == <<x>>

\* ------------------------------------------------------- python helpers
RECURSIVE SumSeq(_)
SumSeq(s) == IF s = <<>> THEN 0 ELSE s[1] + SumSeq(Tail(s))

\* dict[k] = v
Put(d, k, v) == [x \in (DOMAIN d) \cup {k} |-> IF x = k THEN v ELSE d[x]]

\* dict.get(k, default)
Get(d, k, default) == IF k \in DOMAIN d THEN d[k] ELSE default

\* '{}/{}'.format(scope, name), and the plain keys of the end-points mapping
Key(scope, name) == <<scope, name>>
TopKey(name) == <<name>>

EmptyDict == <<>>

\* ------------------------------------------------- fixed-point numbers
\* 1.0 and the controller's epsilon (0.01) in fixed point.
One == 100
Eps == 1
ProbaVals == {0, 50, One}

VARIABLES
  blocks,              \* stack_blocks argument: the list of blocks
  use_act,             \* stack_blocks argument
  act_early_stopping,  \* stack_blocks argument
  sact,                \* stack_blocks argument
  ep_in,               \* stack_blocks argument end_points as passed (EmptyDict for None)
  proba,               \* the estimator's answer at each unit index (its learnt weights)
  end_points,          \* the end-points mapping being built
  net,                 \* the activation tensor threaded through the blocks
  flops,               \* stack_blocks' local flops of the current block
  pc,                  \* position in stack_blocks
  bi,                  \* index (1-based) of the current block
  unit_idx,            \* loop variable of the static unit loop
  calls,               \* every unit_act invocation so far, in order
  ctl,                 \* state of the adaptive computation controller
  hm,                  \* state of a sact_image_heatmap / sact_map call
  ex                   \* state of an export_to_h5 call

vars == <<blocks, use_act, act_early_stopping, sact, ep_in, proba, end_points,
          net, flops, pc, bi, unit_idx, calls, ctl, hm, ex>>

\* What a run of stack_blocks is given and never assigns.
given == <<blocks, use_act, act_early_stopping, sact, ep_in, proba>>

stackVars == <<given, end_points, net, flops, pc, bi, unit_idx, calls, ctl>>

\* ------------------------------------------------------------- blocks
\* A block: its scope and the argument tuple of each unit (block.args).
\* The argument of a unit stands for what decides its cost.
BlockArgs(n) == [i \in 1..n |-> IF i = 1 THEN 3 ELSE 2]

Block(scope, n) == [scope |-> scope, args |-> BlockArgs(n)]

RECURSIVE BlockLists(_)
BlockLists(k) ==
  IF k = 0 THEN {<<>>}
  ELSE LET shorter == BlockLists(k - 1)
       IN shorter \cup
          {Append(l, Block(s, n)) :
             l \in {x \in shorter : Len(x) = k - 1},
             s \in ScopeNames, n \in 1..MaxUnits}

DistinctScopes(l) ==
  \A i, j \in 1..Len(l) : i # j => l[i].scope # l[j].scope

\* ---------------------------------------------------------- estimators
\* get_halting_proba: global pooling, one 1x1 convolution.
get_halting_proba(outputs, idx) ==
  [halting_proba |-> Some(proba[idx]), flops |-> 1, kind |-> "global"]

\* get_halting_proba_conv: a local convolution plus the global logit.
get_halting_proba_conv(outputs, idx) ==
  [halting_proba |-> Some(proba[idx]), flops |-> 2 + 1, kind |-> "conv"]

\* block.unit_fn: the opaque residual unit, applied under scope unit_<idx+1>.
unit_fn(block, inputs, idx) ==
  [outputs |-> Append(inputs, <<block.scope, idx>>),
   flops |-> block.args[idx + 1]]

\* The mutant of unit_act: the halting probability is computed for the last
\* unit too (unit_idx <= len(block.args) - 1).
unit_act_last_unit_estimates(block, inputs, idx, skip_halting_proba, is_sact) ==
  LET u == unit_fn(block, inputs, idx)
      estimate == ~skip_halting_proba /\ idx <= Len(block.args) - 1
      e == IF is_sact THEN get_halting_proba_conv(u.outputs, idx)
           ELSE get_halting_proba(u.outputs, idx)
  IN [outputs |-> u.outputs,
      halting_proba |-> IF estimate THEN e.halting_proba ELSE None,
      flops |-> IF estimate THEN u.flops + e.flops ELSE u.flops,
      unit_flops |-> u.flops,
      estimator |-> IF estimate THEN e.kind ELSE "none"]

\* unit_act(block, inputs, unit_idx, skip_halting_proba, sact): the record of
\* what it returns (outputs, halting_proba, flops) and of what it invoked
\* (unit_flops: the flops block.unit_fn returned; estimator: which estimator).
unit_act(block, inputs, idx, skip_halting_proba, is_sact) ==
  LET u == unit_fn(block, inputs, idx)
      estimate == ~skip_halting_proba /\ idx < Len(block.args) - 1
      e == IF is_sact THEN get_halting_proba_conv(u.outputs, idx)
           ELSE get_halting_proba(u.outputs, idx)
  IN [outputs |-> u.outputs,
      halting_proba |-> IF estimate THEN e.halting_proba ELSE None,
      flops |-> IF estimate THEN u.flops + e.flops ELSE u.flops,
      unit_flops |-> u.flops,
      estimator |-> IF estimate THEN e.kind ELSE "none"]

\* The record kept of one unit_act invocation.
Call(block_index, idx, inputs, skip_halting_proba, is_sact, r) ==
  [block |-> block_index, unit_idx |-> idx, inputs |-> inputs,
   skip_halting_proba |-> skip_halting_proba, sact |-> is_sact,
   outputs |-> r.outputs, halting_proba |-> r.halting_proba,
   flops |-> r.flops, unit_flops |-> r.unit_flops, estimator |-> r.estimator]

\* --------------------------------------------------------- controller
\* The adaptive computation controller (act.adaptive_computation_time_wrapper,
\* act.adaptive_computation_early_stopping, act.spatially_adaptive_computation_time),
\* for one element.  candidate is the input of the next unit.
CtlIdle ==
  [t |-> 0, cumulative_probability |-> 0, remainder |-> One,
   is_halted |-> FALSE, forced |-> FALSE, executed_count |-> 0,
   weights |-> <<>>, flops |-> 0, candidate |-> <<>>]

CtlStart(inputs) == [CtlIdle EXCEPT !.candidate = inputs]

\* Step 2d: halt when the cumulative probability reaches 1 - epsilon, or at
\* the last unit.
HaltNow(new_cumulative, t, n) == new_cumulative >= One - Eps \/ t = n - 1

\* The mutant of Weight: the halting step is weighted by its halting
\* probability, not by the remainder.
WeightHaltingProba(halt_now, p, remainder) == p

\* Step 2e: the weight of a step.
Weight(halt_now, p, remainder) == IF halt_now THEN remainder ELSE p

\* Steps 2b-2h for a step's result r of a not yet halted element.
CtlAdvance(c, r, n) ==
  LET p == IF r.halting_proba = None THEN 0 ELSE r.halting_proba[1]
      new_cumulative == c.cumulative_probability + p
      halt_now == HaltNow(new_cumulative, c.t, n)
  IN [t |-> c.t + 1,
      cumulative_probability |-> new_cumulative,
      remainder |-> IF halt_now THEN c.remainder ELSE One - new_cumulative,
      is_halted |-> halt_now,
      forced |-> halt_now /\ new_cumulative < One - Eps,
      executed_count |-> c.executed_count + 1,
      weights |-> Append(c.weights, Weight(halt_now, p, c.remainder)),
      flops |-> c.flops + r.flops,
      candidate |-> r.outputs]

\* A halted element is carried through the remaining units unchanged.
CtlCarry(c, r) == [c EXCEPT !.t = c.t + 1, !.candidate = r.outputs]

\* Whether the controller's loop over the n units is over.
CtlFinished(c, n) == c.t = n \/ (act_early_stopping /\ ~sact /\ c.is_halted)

\* The controller's results (ponder_cost, num_units, flops,
\* halting_distribution, net).
CtlResult(c, scope, inputs, n) ==
  [ponder_cost |-> c.executed_count * One + c.remainder,
   num_units |-> c.executed_count,
   flops |-> c.flops,
   halting_distribution |->
     [i \in 1..n |-> IF i <= Len(c.weights) THEN c.weights[i] ELSE 0],
   net |-> Append(inputs, <<scope, c.weights>>)]

\* ------------------------------------------------------- stack_blocks
CurBlock == blocks[bi]

HmIdle == [pc |-> "idle"]
ExIdle == [pc |-> "idle"]

\* The end-points a caller passes: none, or the network's own (inputs and
\* the flops of the layers before the blocks).
EndPointsIn ==
  {EmptyDict, Put(Put(EmptyDict, TopKey("inputs"), <<>>), TopKey("flops"), 7)}

\* The unit indices at which some block of the list has an estimator: all
\* but the last unit of a block.
EstimatedIndices(l) ==
  {i \in 0..(MaxUnits - 1) : \E b \in 1..Len(l) : i < Len(l[b].args) - 1}

\* The estimator's answers: one probability for each index it is asked at
\* (an answer never asked for is left 0).
EstimatorAnswers(l) ==
  {[i \in 0..(MaxUnits - 1) |-> IF i \in EstimatedIndices(l) THEN g[i] ELSE 0] :
     g \in [EstimatedIndices(l) -> ProbaVals]}

StackInit ==
  /\ blocks \in {l \in BlockLists(MaxBlocks) : DistinctScopes(l)}
  /\ use_act \in BOOLEAN
  /\ act_early_stopping \in BOOLEAN
  /\ sact \in BOOLEAN
  /\ ep_in \in EndPointsIn
  /\ proba \in IF use_act THEN EstimatorAnswers(blocks)
               ELSE {[i \in 0..(MaxUnits - 1) |-> 0]}
  /\ end_points = ep_in
  /\ net = <<>>
  /\ flops = 0
  /\ pc = "start"
  /\ bi = 1
  /\ unit_idx = 0
  /\ calls = <<>>
  /\ ctl = CtlIdle

\* Lines 192-196: the three network-wide keys.
Enter ==
  /\ pc = "start"
  /\ end_points' =
       Put(Put(Put(end_points,
           TopKey("flops"), Get(end_points, TopKey("flops"), 0)),
           TopKey("block_scopes"), [i \in 1..Len(blocks) |-> blocks[i].scope]),
           TopKey("block_num_units"), [i \in 1..Len(blocks) |-> Len(blocks[i].args)])
  /\ pc' = "loop"
  /\ bi' = 1
  /\ UNCHANGED <<given, hm, ex, net,
                 flops, unit_idx, calls, ctl>>

\* Lines 219-221: the static branch of a block begins.
StaticBegin ==
  /\ pc = "loop" /\ bi <= Len(blocks) /\ ~use_act
  /\ flops' = 0
  /\ unit_idx' = 0
  /\ pc' = "units"
  /\ UNCHANGED <<given, hm, ex, end_points, net, bi, calls, ctl>>

\* The mutant of StaticUnit: unit_act is called without skip_halting_proba.
StaticUnitNoSkip ==
  /\ pc = "units" /\ unit_idx < Len(CurBlock.args)
  /\ LET r == unit_act(CurBlock, net, unit_idx, FALSE, FALSE)
     IN /\ net' = r.outputs
        /\ flops' = flops + r.flops
        /\ calls' = Append(calls, Call(bi, unit_idx, net, FALSE, FALSE, r))
  /\ unit_idx' = unit_idx + 1
  /\ UNCHANGED <<given, hm, ex, end_points, pc, bi, ctl>>

\* Lines 222-225: one iteration of the static unit loop.
StaticUnit ==
  /\ pc = "units" /\ unit_idx < Len(CurBlock.args)
  /\ LET r == unit_act(CurBlock, net, unit_idx, TRUE, FALSE)
     IN /\ net' = r.outputs
        /\ flops' = flops + r.flops
        /\ calls' = Append(calls, Call(bi, unit_idx, net, TRUE, FALSE, r))
  /\ unit_idx' = unit_idx + 1
  /\ UNCHANGED <<given, hm, ex, end_points, pc, bi, ctl>>

\* The static unit loop is over.
StaticEnd ==
  /\ pc = "units" /\ unit_idx = Len(CurBlock.args)
  /\ pc' = "store"
  /\ UNCHANGED <<given, hm, ex, end_points, net, flops, bi, unit_idx, calls, ctl>>

\* Lines 199-213: the controller is entered for the block.
ActBegin ==
  /\ pc = "loop" /\ bi <= Len(blocks) /\ use_act
  /\ ctl' = CtlStart(net)
  /\ pc' = "act"
  /\ UNCHANGED <<given, hm, ex, end_points, net, flops, bi, unit_idx, calls>>

\* One step of the controller: partial(unit_act, block, sact=sact) applied
\* at unit index ctl.t.
ActStep ==
  /\ pc = "act" /\ ~CtlFinished(ctl, Len(CurBlock.args))
  /\ LET r == unit_act(CurBlock, ctl.candidate, ctl.t, FALSE, sact)
     IN /\ ctl' = IF ctl.is_halted THEN CtlCarry(ctl, r)
                  ELSE CtlAdvance(ctl, r, Len(CurBlock.args))
        /\ calls' = Append(calls, Call(bi, ctl.t, ctl.candidate, FALSE, sact, r))
  /\ UNCHANGED <<given, hm, ex, end_points, net, flops, pc, bi, unit_idx>>

\* The mutant of ActReturn: the halting distribution is not recorded.
ActReturnNoDistribution ==
  /\ pc = "act" /\ CtlFinished(ctl, Len(CurBlock.args))
  /\ LET res == CtlResult(ctl, CurBlock.scope, net, Len(CurBlock.args))
     IN /\ end_points' =
             Put(Put(end_points,
                 Key(CurBlock.scope, "ponder_cost"), res.ponder_cost),
                 Key(CurBlock.scope, "num_units"), res.num_units)
        /\ flops' = res.flops
        /\ net' = res.net
  /\ pc' = "store"
  /\ UNCHANGED <<given, hm, ex, bi,
                 unit_idx, calls, ctl>>

\* Lines 208-218: the controller returns and its metrics are recorded.
ActReturn ==
  /\ pc = "act" /\ CtlFinished(ctl, Len(CurBlock.args))
  /\ LET res == CtlResult(ctl, CurBlock.scope, net, Len(CurBlock.args))
     IN /\ end_points' =
             Put(Put(Put(end_points,
                 Key(CurBlock.scope, "ponder_cost"), res.ponder_cost),
                 Key(CurBlock.scope, "num_units"), res.num_units),
                 Key(CurBlock.scope, "halting_distribution"), res.halting_distribution)
        /\ flops' = res.flops
        /\ net' = res.net
  /\ pc' = "store"
  /\ UNCHANGED <<given, hm, ex, bi,
                 unit_idx, calls, ctl>>

\* The mutant of BlockStore: the ponder cost key is written for every block,
\* whether or not adaptation is enabled.
BlockStoreRecordsPonderCost ==
  /\ pc = "store"
  /\ end_points' =
       Put(Put(Put(Put(end_points,
           Key(CurBlock.scope, "ponder_cost"), 0),
           Key(CurBlock.scope, "flops"), flops),
           TopKey("flops"), end_points[TopKey("flops")] + flops),
           TopKey(CurBlock.scope), net)
  /\ bi' = bi + 1
  /\ pc' = "loop"
  /\ UNCHANGED <<given, hm, ex, net,
                 flops, unit_idx, calls, ctl>>

\* The mutant of BlockStore: the total is assigned, not accumulated
\* (end_points['flops'] = flops).
BlockStoreAssign ==
  /\ pc = "store"
  /\ end_points' =
       Put(Put(Put(end_points,
           Key(CurBlock.scope, "flops"), flops),
           TopKey("flops"), flops),
           TopKey(CurBlock.scope), net)
  /\ bi' = bi + 1
  /\ pc' = "loop"
  /\ UNCHANGED <<given, hm, ex, net,
                 flops, unit_idx, calls, ctl>>

\* Lines 227-229: the block's flops and output are recorded.
BlockStore ==
  /\ pc = "store"
  /\ end_points' =
       Put(Put(Put(end_points,
           Key(CurBlock.scope, "flops"), flops),
           TopKey("flops"), end_points[TopKey("flops")] + flops),
           TopKey(CurBlock.scope), net)
  /\ bi' = bi + 1
  /\ pc' = "loop"
  /\ UNCHANGED <<given, hm, ex, net,
                 flops, unit_idx, calls, ctl>>

\* Line 231: return net, end_points.
Return ==
  /\ pc = "loop" /\ bi > Len(blocks)
  /\ pc' = "done"
  /\ UNCHANGED <<given, hm, ex, end_points, net, flops, bi, unit_idx, calls, ctl>>

Init == StackInit /\ hm = HmIdle /\ ex = ExIdle

Next ==
  \/ Enter
  \/ StaticBegin
  \/ StaticUnit
  \/ StaticEnd
  \/ ActBegin
  \/ ActStep
  \/ ActReturn
  \/ BlockStore
  \/ Return

Spec == Init /\ [][Next]_vars

\* ---------------------------------------------- stack_blocks: the claims
\* The (block index, unit index) pairs of a list of blocks, blocks in list
\* order and unit indices increasing within a block.
RECURSIVE UnitPairs(_, _)
UnitPairs(l, from) ==
  IF from > Len(l) THEN <<>>
  ELSE [u \in 1..Len(l[from].args) |-> <<from, u - 1>>] \o UnitPairs(l, from + 1)

CallPairs == [i \in 1..Len(calls) |-> <<calls[i].block, calls[i].unit_idx>>]

CallsOfBlock(b) == SelectSeq(calls, LAMBDA c : c.block = b)

FlopsOfCalls(cs) == SumSeq([i \in 1..Len(cs) |-> cs[i].flops])

BlockFlopsKeys == [i \in 1..Len(blocks) |-> Key(blocks[i].scope, "flops")]

SumOfBlockFlops == SumSeq([i \in 1..Len(blocks) |-> end_points[BlockFlopsKeys[i]]])

ActKeys(scope) ==
  {Key(scope, "ponder_cost"), Key(scope, "num_units"),
   Key(scope, "halting_distribution")}

\* C1: in static mode the unit function is invoked once per (block, unit
\* index), blocks in list order and unit indices 0..N-1 increasing; each
\* invocation receives the output of the one before it (the first the network
\* input); no estimator is invoked; the returned net is the last output.
C1_StaticUnitOrder ==
  ~use_act =>
    /\ Len(calls) <= Len(UnitPairs(blocks, 1))
    /\ CallPairs = SubSeq(UnitPairs(blocks, 1), 1, Len(calls))
    /\ \A i \in 1..Len(calls) :
         /\ calls[i].inputs = IF i = 1 THEN <<>> ELSE calls[i - 1].outputs
         /\ calls[i].estimator = "none"
         /\ calls[i].halting_proba = None
    /\ pc = "done" =>
         /\ CallPairs = UnitPairs(blocks, 1)
         /\ net = IF calls = <<>> THEN <<>> ELSE calls[Len(calls)].outputs

C1_Witness ==
  /\ ~use_act /\ pc = "done" /\ Len(blocks) = 2
  /\ Len(blocks[1].args) = 3 /\ Len(blocks[2].args) = 2
  /\ Len(calls) = 5

\* C2: unit_act computes no halting probability for the last unit of a block
\* (halting_proba is None and no estimator flops are added), with ACT and with
\* SACT; for an earlier unit, unless skip_halting_proba, it computes one, with
\* the global estimator when sact is false and the convolutional when true.
C2_LastUnitNoHaltingProba ==
  \A i \in 1..Len(calls) :
    LET c == calls[i]
        n == Len(blocks[c.block].args)
    IN /\ c.unit_idx = n - 1 =>
            /\ c.halting_proba = None
            /\ c.estimator = "none"
            /\ c.flops = c.unit_flops
       /\ (c.unit_idx < n - 1 /\ ~c.skip_halting_proba) =>
            /\ c.halting_proba # None
            /\ c.estimator = (IF c.sact THEN "conv" ELSE "global")
            /\ c.flops > c.unit_flops

C2_Witness ==
  /\ use_act /\ sact
  /\ \E i, j \in 1..Len(calls) :
       /\ calls[i].block = calls[j].block
       /\ calls[i].unit_idx = 0 /\ calls[i].estimator = "conv"
       /\ calls[j].unit_idx = Len(blocks[calls[j].block].args) - 1
       /\ calls[j].unit_idx > 0 /\ calls[j].halting_proba = None

\* C3: in static mode block_num_units records the unit count N of each block,
\* all N units of a block execute, and no ponder_cost, num_units or
\* halting_distribution key of a block is added, while S/flops is.
C3_StaticNoPonderCost ==
  ~use_act =>
    /\ \A i \in 1..Len(blocks) :
         ActKeys(blocks[i].scope) \cap DOMAIN end_points = {}
    /\ pc = "done" =>
         /\ end_points[TopKey("block_num_units")] =
              [i \in 1..Len(blocks) |-> Len(blocks[i].args)]
         /\ \A i \in 1..Len(blocks) :
              /\ Len(CallsOfBlock(i)) = end_points[TopKey("block_num_units")][i]
              /\ Key(blocks[i].scope, "flops") \in DOMAIN end_points

C3_Witness ==
  /\ ~use_act /\ pc = "done" /\ Len(blocks) = 2
  /\ Len(CallsOfBlock(1)) = 3
  /\ Key(blocks[2].scope, "flops") \in DOMAIN end_points

\* C4 as stated: once stack_blocks has returned, end_points['flops'] is the sum
\* over the blocks of end_points['<scope>/flops'].
C4_TotalIsSumOfBlocks ==
  pc = "done" => end_points[TopKey("flops")] = SumOfBlockFlops

\* C4, amended: once stack_blocks has returned, end_points['flops'] is the
\* value it had on entry (0 when absent) plus the sum over the blocks of
\* end_points['<scope>/flops']; in static mode a block's flops is the sum of
\* the flops its unit invocations returned.
C4_TotalIsEntryPlusSumOfBlocks ==
  pc = "done" =>
    /\ end_points[TopKey("flops")] =
         Get(ep_in, TopKey("flops"), 0) + SumOfBlockFlops
    /\ ~use_act =>
         \A i \in 1..Len(blocks) :
           end_points[BlockFlopsKeys[i]] = FlopsOfCalls(CallsOfBlock(i))

C4_Witness ==
  /\ pc = "done" /\ Len(blocks) = 2
  /\ TopKey("flops") \in DOMAIN ep_in /\ ep_in[TopKey("flops")] > 0
  /\ SumOfBlockFlops > 0
  /\ end_points[TopKey("flops")] > SumOfBlockFlops

\* C8: with adaptation enabled, once stack_blocks has returned the end-points
\* hold flops, block_scopes and block_num_units and, for every block scope S,
\* S/ponder_cost, S/num_units, S/flops and S/halting_distribution;
\* block_scopes lists the block names in block order and block_num_units the
\* unit count of the block at the same position.
C8_ActEndPointKeys ==
  (use_act /\ pc = "done") =>
    /\ {TopKey("flops"), TopKey("block_scopes"), TopKey("block_num_units")}
         \subseteq DOMAIN end_points
    /\ \A i \in 1..Len(blocks) :
         ActKeys(blocks[i].scope) \cup {Key(blocks[i].scope, "flops")}
           \subseteq DOMAIN end_points
    /\ end_points[TopKey("block_scopes")] =
         [i \in 1..Len(blocks) |-> blocks[i].scope]
    /\ end_points[TopKey("block_num_units")] =
         [i \in 1..Len(blocks) |-> Len(blocks[i].args)]

C8_Witness ==
  /\ use_act /\ sact /\ pc = "done" /\ Len(blocks) = 2
  /\ blocks[1].scope = "block2" /\ blocks[2].scope = "block1"
  /\ Len(blocks[1].args) # Len(blocks[2].args)

\* C10: the weights applied to an element's executed steps (p_t at a step
\* that does not halt, the remainder at the halting step) sum to 1, also when
\* no cumulative probability reaches 1 - epsilon and the element is halted by
\* force at unit N-1.
C10_WeightsSumToOne ==
  /\ ctl.is_halted => SumSeq(ctl.weights) = One
  /\ Len(ctl.weights) = ctl.executed_count
  /\ \A i \in 1..Len(blocks) :
       Key(blocks[i].scope, "halting_distribution") \in DOMAIN end_points =>
         SumSeq(end_points[Key(blocks[i].scope, "halting_distribution")]) = One

C10_Witness ==
  /\ pc = "act" /\ ctl.is_halted /\ ctl.forced
  /\ ctl.executed_count = 3
  /\ ctl.cumulative_probability = 50
  /\ ctl.weights = <<0, 50, 50>>

\* ------------------------------------------------ controller: claims
\* The unit count of the block the controller runs on, and the states in
\* which the controller's state is that of the current block.
CtlUnits == Len(CurBlock.args)

InController == use_act /\ pc \in {"act", "store"}

\* The element halted at a unit index t < N-1, or at the last unit N-1.
HaltedEarly == InController /\ ctl.is_halted /\ ctl.executed_count < CtlUnits

HaltedAtLastUnit == InController /\ ctl.is_halted /\ ctl.executed_count = CtlUnits

CumulativeAfter(t) == SumSeq([i \in 1..(t + 1) |-> proba[i - 1]])

Reaches(t) == CumulativeAfter(t) >= One - Eps

HaltIndex(n) ==
  IF \E t \in 0..(n - 2) : Reaches(t)
  THEN CHOOSE t \in 0..(n - 2) :
         Reaches(t) /\ \A u \in 0..(t - 1) : ~Reaches(u)
  ELSE n - 1

\* C12: a controller run over a block of N units ends with
\* 1 <= executed_count <= N; the element halts at the first unit whose
\* cumulative probability reaches 1 - epsilon, or at unit N-1 by forced halt,
\* for which no halting probability is computed.
C12_ExecutedCountInRange ==
  InController =>
    /\ ctl.t <= CtlUnits
    /\ ctl.executed_count <= HaltIndex(CtlUnits) + 1
    /\ ctl.is_halted => ctl.executed_count = HaltIndex(CtlUnits) + 1
    /\ ~ctl.is_halted => (ctl.executed_count = ctl.t /\ ctl.t < CtlUnits)
    /\ pc = "store" =>
         /\ ctl.is_halted
         /\ 1 <= ctl.executed_count /\ ctl.executed_count <= CtlUnits
         /\ end_points[Key(CurBlock.scope, "num_units")] = ctl.executed_count
    /\ \A i \in 1..Len(calls) :
         (calls[i].block = bi /\ calls[i].unit_idx = CtlUnits - 1) =>
           calls[i].halting_proba = None

C12_Witness ==
  /\ InController /\ pc = "store" /\ CtlUnits = 3
  /\ proba[0] = 0 /\ proba[1] = 50
  /\ ctl.forced /\ ctl.executed_count = 3
  /\ \E i \in 1..Len(calls) : calls[i].block = bi /\ calls[i].unit_idx = 2

\* ------------------------------------------------------ tensor shapes
\* A tensor whose values do not matter is its shape; Bad is the failure of
\* the operation that should have built it.
Bad == <<>>

Min(a, b) == IF a <= b THEN a ELSE b
Max(a, b) == IF a >= b THEN a ELSE b

\* t[:n, ...] for n >= 0
Slice0(shape, n) == [shape EXCEPT ![1] = Min(shape[1], n)]

\* tf.expand_dims(h, 3): h must have rank 3 at least
ExpandDims3(shape) == IF Len(shape) >= 3 THEN Append(shape, 1) ELSE Bad

\* tf.image.resize_nearest_neighbor(h, resolution): h has rank 4
ResizeNearestNeighbor(shape, resolution) ==
  IF Len(shape) = 4
  THEN <<shape[1], resolution[1], resolution[2], shape[4]>>
  ELSE Bad

\* tf.concat([a, b], axis), axis counted from 0: every other dimension agrees
Concat(a, b, axis) ==
  IF /\ a # Bad /\ b # Bad /\ Len(a) = Len(b) /\ axis < Len(a)
     /\ \A i \in 1..Len(a) : i # axis + 1 => a[i] = b[i]
  THEN [a EXCEPT ![axis + 1] = a[axis + 1] + b[axis + 1]]
  ELSE Bad

\* tf.add_n(list): a list that is not empty, of tensors of one shape
AddN(list) ==
  IF list # <<>> /\ \A i \in 1..Len(list) : list[i] = list[1] /\ list[i] # Bad
  THEN list[1]
  ELSE Bad

\* a + b with broadcasting
BroadcastAdd(a, b) ==
  IF /\ a # Bad /\ b # Bad /\ Len(a) = Len(b)
     /\ \A i \in 1..Len(a) : a[i] = b[i] \/ a[i] = 1 \/ b[i] = 1
  THEN [i \in 1..Len(a) |-> Max(a[i], b[i])]
  ELSE Bad

\* ------------------------------------------- end-points of a network
MaxBatch == 3
MaxImages == 4

Resolutions == {<<224, 224>>, <<2, 3>>}
Borders == {0, 5}
MetricNames == {"ponder_cost", "num_units", "num_timesteps", "flops"}
ScopeOrder == <<"block1", "block2", "block3">>

\* The resolution of the metric maps of the i-th block: each block halves it.
MapResolution(resolution, i) ==
  <<Max(1, resolution[1] \div (2 * i)), Max(1, resolution[2] \div (2 * i))>>

\* The end-points of a network of k blocks on a batch of the given size, as
\* stack_blocks leaves them (shapes for tensors): per element for ACT, per
\* element and location for SACT.
RECURSIVE BlockEndPoints(_, _, _, _, _)
BlockEndPoints(d, batch, resolution, k, is_sact) ==
  IF k = 0 THEN d
  ELSE LET scope == ScopeOrder[k]
           m == IF is_sact THEN <<batch>> \o MapResolution(resolution, k)
                ELSE <<batch>>
       IN BlockEndPoints(
            Put(Put(Put(Put(d,
                Key(scope, "ponder_cost"), m),
                Key(scope, "num_units"), m),
                Key(scope, "halting_distribution"), m \o <<k + 1>>),
                Key(scope, "flops"), <<batch>>),
            batch, resolution, k - 1, is_sact)

NetworkEndPoints(batch, resolution, k, is_sact) ==
  BlockEndPoints(
    Put(Put(Put(Put(EmptyDict,
        TopKey("inputs"), <<batch, resolution[1], resolution[2], 3>>),
        TopKey("flops"), <<batch>>),
        TopKey("block_scopes"), SubSeq(ScopeOrder, 1, k)),
        TopKey("block_num_units"), [i \in 1..k |-> i + 1]),
    batch, resolution, k, is_sact)

\* ---------------------------------- sact_image_heatmap and sact_map
\* The mutant of ValidMetricName: 'num_timesteps' is accepted too.
ValidMetricNameWithTimesteps(metric_name) ==
  metric_name \in {"ponder_cost", "num_units", "num_timesteps"}

\* Lines 268 and 331: assert metric_name in ('ponder_cost', 'num_units')
ValidMetricName(metric_name) == metric_name \in {"ponder_cost", "num_units"}

\* A call that has not begun.
HmCall(fn, e, is_sact, metric_name, is_given, num_images, border) ==
  [pc |-> "call", fn |-> fn, end_points |-> e, sact |-> is_sact,
   metric_name |-> metric_name,
   num_images_given |-> is_given, num_images |-> num_images, border |-> border,
   images |-> Bad, resolution |-> Bad, i |-> 1, heatmaps |-> <<>>,
   reads |-> {}, result |-> "none", shape |-> Bad]

HmRaise(h, error) == [h EXCEPT !.pc = "done", !.result = error]

\* Line 268 (sact_image_heatmap) and line 331 (sact_map): the assertion.
MetricAssertStep(h) ==
  IF ValidMetricName(h.metric_name) THEN [h EXCEPT !.pc = "inputs"]
  ELSE HmRaise(h, "AssertionError")

MetricAssert ==
  /\ hm.pc = "call"
  /\ hm' = MetricAssertStep(hm)
  /\ UNCHANGED <<stackVars, ex>>

\* Lines 270-285: the images, num_images and the resolution.
HeatmapInputs ==
  /\ hm.pc = "inputs" /\ hm.fn = "sact_image_heatmap"
  /\ LET inputs == hm.end_points[TopKey("inputs")]
         images == IF hm.num_images_given THEN Slice0(inputs, hm.num_images)
                   ELSE inputs
     IN hm' = [hm EXCEPT
                 !.pc = "blocks",
                 !.images = images,
                 !.num_images = IF hm.num_images_given THEN @ ELSE inputs[1],
                 !.resolution = SubSeq(images, 2, 3),
                 !.reads = @ \cup {TopKey("inputs"), TopKey("block_num_units")}]
  /\ UNCHANGED <<stackVars, ex>>

\* Lines 333-338: the resolution of the inputs.
SactMapInputsStep(h) ==
  LET inputs == h.end_points[TopKey("inputs")]
  IN [h EXCEPT !.pc = "blocks",
               !.images = inputs,
               !.resolution = SubSeq(inputs, 2, 3),
               !.reads = @ \cup {TopKey("inputs")}]

SactMapInputs ==
  /\ hm.pc = "inputs" /\ hm.fn = "sact_map"
  /\ hm' = SactMapInputsStep(hm)
  /\ UNCHANGED <<stackVars, ex>>

\* The mutant of HeatmapOfBlock: the metric map is not resized.
HeatmapOfBlockNotResized(h, num_images, resolution) ==
  LET sliced == IF Len(h) >= 3 THEN Slice0(h, num_images) ELSE Bad
      expanded == IF sliced = Bad THEN Bad ELSE ExpandDims3(sliced)
  IN Concat(expanded, <<num_images, resolution[1], resolution[2], 2>>, 3)

\* Lines 290-298: the heatmap of one block's metric map h.
HeatmapOfBlock(h, num_images, resolution) ==
  LET sliced == IF Len(h) >= 3 THEN Slice0(h, num_images) ELSE Bad
      expanded == IF sliced = Bad THEN Bad ELSE ExpandDims3(sliced)
      resized == IF expanded = Bad THEN Bad
                 ELSE ResizeNearestNeighbor(expanded, resolution)
  IN Concat(resized, <<num_images, resolution[1], resolution[2], 2>>, 3)

\* Lines 343-347: the map of one block's metric map h.
MapOfBlock(h, resolution) ==
  LET expanded == ExpandDims3(h)
  IN IF expanded = Bad THEN Bad ELSE ResizeNearestNeighbor(expanded, resolution)

\* One iteration of the loop over block_scopes (lines 288-299, 341-348).
HmBlockStep(h) ==
  LET scope == h.end_points[TopKey("block_scopes")][h.i]
      key == Key(scope, h.metric_name)
      read == [h EXCEPT !.reads = @ \cup {TopKey("block_scopes"), key}]
      map == IF h.fn = "sact_image_heatmap"
             THEN HeatmapOfBlock(h.end_points[key], h.num_images, h.resolution)
             ELSE MapOfBlock(h.end_points[key], h.resolution)
  IN IF key \notin DOMAIN h.end_points THEN HmRaise(read, "KeyError")
     ELSE IF map = Bad THEN HmRaise(read, "ValueError")
     ELSE [read EXCEPT !.heatmaps = Append(@, map), !.i = @ + 1]

MetricBlock ==
  /\ hm.pc = "blocks" /\ hm.i <= Len(hm.end_points[TopKey("block_scopes")])
  /\ hm' = HmBlockStep(hm)
  /\ UNCHANGED <<stackVars, ex>>

\* Lines 301-307: the overlay, and the original, a border and the overlay
\* side by side.
HeatmapResult(h) ==
  LET im_heatmap == BroadcastAdd(h.images, AddN(h.heatmaps))
      border == <<h.num_images, h.resolution[1], h.border, 3>>
      ret == Concat(Concat(h.images, border, 2), im_heatmap, 2)
  IN IF ret = Bad THEN HmRaise(h, "ValueError")
     ELSE [h EXCEPT !.pc = "done", !.result = "ok", !.shape = ret]

\* Line 350: return tf.add_n(heatmaps)
SactMapResult(h) ==
  LET ret == AddN(h.heatmaps)
  IN IF ret = Bad THEN HmRaise(h, "ValueError")
     ELSE [h EXCEPT !.pc = "done", !.result = "ok", !.shape = ret]

HeatmapReturn ==
  /\ hm.pc = "blocks" /\ hm.i > Len(hm.end_points[TopKey("block_scopes")])
  /\ hm.fn = "sact_image_heatmap"
  /\ hm' = HeatmapResult(hm)
  /\ UNCHANGED <<stackVars, ex>>

SactMapReturn ==
  /\ hm.pc = "blocks" /\ hm.i > Len(hm.end_points[TopKey("block_scopes")])
  /\ hm.fn = "sact_map"
  /\ hm' = SactMapResult(hm)
  /\ UNCHANGED <<stackVars, ex>>

\* stack_blocks is not running.
StackIdle ==
  /\ blocks = <<>> /\ use_act = FALSE /\ act_early_stopping = FALSE
  /\ sact = FALSE /\ ep_in = EmptyDict
  /\ proba = [i \in 0..(MaxUnits - 1) |-> 0]
  /\ end_points = EmptyDict /\ net = <<>> /\ flops = 0 /\ pc = "idle"
  /\ bi = 1 /\ unit_idx = 0 /\ calls = <<>> /\ ctl = CtlIdle

HeatmapInit ==
  /\ StackIdle
  /\ ex = ExIdle
  /\ hm \in {HmCall(fn, NetworkEndPoints(batch, resolution, k, is_sact), is_sact,
                    metric_name, is_given, IF is_given THEN num_images ELSE 0, border) :
               fn \in {"sact_image_heatmap", "sact_map"},
               batch \in 1..MaxBatch, resolution \in Resolutions,
               k \in 0..MaxBlocks, is_sact \in BOOLEAN,
               metric_name \in MetricNames, is_given \in BOOLEAN,
               num_images \in 0..MaxImages, border \in Borders}

HeatmapNext ==
  \/ MetricAssert
  \/ HeatmapInputs
  \/ SactMapInputs
  \/ MetricBlock
  \/ HeatmapReturn
  \/ SactMapReturn

SpecHeatmap == HeatmapInit /\ [][HeatmapNext]_vars

C6_NumTimestepsHeatmap ==
  ( /\ hm.pc = "done" /\ hm.fn = "sact_image_heatmap" /\ hm.sact
    /\ hm.metric_name = "num_timesteps"
    /\ hm.num_images_given /\ hm.num_images = 3 /\ hm.border = 5
    /\ hm.end_points[TopKey("inputs")] = <<3, 224, 224, 3>>
    /\ Len(hm.end_points[TopKey("block_scopes")]) >= 1 ) =>
    /\ hm.result = "ok"
    /\ hm.shape = <<3, 224, 224 * 2 + 5, 3>>

\* The shape (num_images, height, width*2 + border, 3) of a heatmap.
ExpectedHeatmapShape(h) ==
  LET inputs == h.end_points[TopKey("inputs")]
  IN <<h.num_images, inputs[2], inputs[3] * 2 + h.border, 3>>

\* A finished sact_image_heatmap call with a valid metric name and num_images
\* given, on the end-points of a SACT network of one block at least.
HeatmapCase ==
  /\ hm.pc = "done" /\ hm.fn = "sact_image_heatmap" /\ hm.sact
  /\ hm.metric_name \in {"ponder_cost", "num_units"}
  /\ hm.num_images_given
  /\ Len(hm.end_points[TopKey("block_scopes")]) >= 1

\* C9 as stated: for every valid metric name, num_images, border and input
\* resolution the heatmap has shape (num_images, height, width*2 + border, 3).
C9_HeatmapShapeAnyNumImages ==
  HeatmapCase => (hm.result = "ok" /\ hm.shape = ExpectedHeatmapShape(hm))

\* C9, amended: so it is for every num_images from 1 to the batch size of
\* end_points['inputs']; each block's metric map is resized to the input
\* resolution before the overlay.
C9_HeatmapShape ==
  ( /\ HeatmapCase
    /\ hm.num_images >= 1
    /\ hm.num_images <= hm.end_points[TopKey("inputs")][1] ) =>
    /\ hm.result = "ok"
    /\ hm.shape = ExpectedHeatmapShape(hm)
    /\ Len(hm.heatmaps) = Len(hm.end_points[TopKey("block_scopes")])
    /\ \A i \in 1..Len(hm.heatmaps) :
         hm.heatmaps[i] = <<hm.num_images, hm.resolution[1], hm.resolution[2], 3>>

C9_Witness ==
  /\ HeatmapCase /\ hm.result = "ok"
  /\ hm.metric_name = "num_units"
  /\ hm.num_images = 2 /\ hm.border = 5
  /\ hm.end_points[TopKey("inputs")] = <<3, 224, 224, 3>>
  /\ Len(hm.end_points[TopKey("block_scopes")]) = 2
  /\ hm.end_points[Key("block2", "num_units")] = <<3, 56, 56>>
  /\ hm.shape = <<2, 224, 453, 3>>

\* ------------------------------------------------------ export_to_h5
MaxSamples == 4

\* sact_map(end_points, metric_name) run to its end.
RECURSIVE HmRun(_)
HmRun(h) ==
  IF h.pc = "done" THEN h
  ELSE IF h.pc = "call" THEN HmRun(MetricAssertStep(h))
  ELSE IF h.pc = "inputs" THEN HmRun(SactMapInputsStep(h))
  ELSE IF h.i <= Len(h.end_points[TopKey("block_scopes")])
       THEN HmRun(HmBlockStep(h))
  ELSE SactMapResult(h)

sact_map(e, metric_name) ==
  HmRun(HmCall("sact_map", e, TRUE, metric_name, FALSE, 0, 0))

\* A call that has not begun.  file is the state of export_path: "absent",
\* "old" (an earlier export) or "new" (created or truncated, empty).
ExCall(e, is_sact, num_samples, batch_size, file) ==
  [pc |-> "open", end_points |-> e, sact |-> is_sact,
   num_samples |-> num_samples, batch_size |-> batch_size,
   file_before |-> file, file |-> file, attrs |-> {},
   keys_to_tensors |-> EmptyDict, keys_to_datasets |-> EmptyDict,
   init_fn |-> FALSE, supervisor |-> FALSE, restored |-> FALSE,
   num_batches |-> 0, i |-> 0, batches_evaluated |-> 0, rows_written |-> 0,
   result |-> "none"]

ExRaise(x, error) == [x EXCEPT !.pc = "done", !.result = error]

\* Lines 356-358: h5py.File(export_path, 'w') and the block_scopes attribute.
ExportOpen ==
  /\ ex.pc = "open"
  /\ ex' = [ex EXCEPT !.pc = "gather", !.file = "new",
                      !.attrs = {"block_scopes"}]
  /\ UNCHANGED <<stackVars, hm>>

\* Lines 360-365: the four tensors of each block.
RECURSIVE BlockTensors(_, _, _)
BlockTensors(d, e, k) ==
  IF k = 0 THEN d
  ELSE LET scope == e[TopKey("block_scopes")][k]
           ks == <<Key(scope, "ponder_cost"), Key(scope, "num_units"),
                   Key(scope, "halting_distribution"), Key(scope, "flops")>>
       IN BlockTensors(
            Put(Put(Put(Put(d, ks[1], e[ks[1]]), ks[2], e[ks[2]]),
                ks[3], e[ks[3]]), ks[4], e[ks[4]]),
            e, k - 1)

\* Lines 359-371: keys_to_tensors.
ExportGather ==
  /\ ex.pc = "gather"
  /\ LET e == ex.end_points
         base == Put(Put(BlockTensors(EmptyDict, e, Len(e[TopKey("block_scopes")])),
                     TopKey("images"), e[TopKey("inputs")]),
                     TopKey("flops"), e[TopKey("flops")])
         ponder == sact_map(e, "ponder_cost")
         units == sact_map(e, "num_units")
     IN ex' = IF ~ex.sact
              THEN [ex EXCEPT !.pc = "datasets", !.keys_to_tensors = base]
              ELSE IF ponder.result # "ok" THEN ExRaise(ex, ponder.result)
              ELSE IF units.result # "ok" THEN ExRaise(ex, units.result)
              ELSE [ex EXCEPT
                      !.pc = "datasets",
                      !.keys_to_tensors =
                         Put(Put(base, TopKey("ponder_cost_map"), ponder.shape),
                             TopKey("num_units_map"), units.shape)]
  /\ UNCHANGED <<stackVars, hm>>

\* Lines 373-379: a dataset of num_samples rows for each tensor.
ExportCreateDatasets ==
  /\ ex.pc = "datasets"
  /\ ex' = [ex EXCEPT
              !.pc = "prepare",
              !.keys_to_datasets =
                 [k \in DOMAIN ex.keys_to_tensors |->
                    [ex.keys_to_tensors[k] EXCEPT ![1] = ex.num_samples]]]
  /\ UNCHANGED <<stackVars, hm>>

\* Lines 381-391: the restore function and the supervisor are built.
ExportPrepare ==
  /\ ex.pc = "prepare"
  /\ ex' = [ex EXCEPT !.pc = "check", !.init_fn = TRUE, !.supervisor = TRUE]
  /\ UNCHANGED <<stackVars, hm>>

\* The mutant of Divides: the assertion is not made.
DividesNotChecked(num_samples, batch_size) == TRUE

\* Line 393: num_samples % batch_size == 0
Divides(num_samples, batch_size) == num_samples % batch_size = 0

\* Lines 393-394: the assertion and num_batches.
ExportCheck ==
  /\ ex.pc = "check"
  /\ ex' = IF Divides(ex.num_samples, ex.batch_size)
           THEN [ex EXCEPT !.pc = "session",
                           !.num_batches = ex.num_samples \div ex.batch_size]
           ELSE ExRaise(ex, "AssertionError")
  /\ UNCHANGED <<stackVars, hm>>

\* Lines 396-398: the session is opened and the checkpoint restored.
ExportSession ==
  /\ ex.pc = "session"
  /\ ex' = [ex EXCEPT !.pc = "batches", !.restored = TRUE, !.i = 0]
  /\ UNCHANGED <<stackVars, hm>>

\* Lines 400-404: one batch is evaluated and written to every dataset.
ExportBatch ==
  /\ ex.pc = "batches" /\ ex.i < ex.num_batches
  /\ ex' = [ex EXCEPT !.i = @ + 1,
                      !.batches_evaluated = @ + 1,
                      !.rows_written = @ + ex.batch_size]
  /\ UNCHANGED <<stackVars, hm>>

\* The loop over the batches is over.
ExportReturn ==
  /\ ex.pc = "batches" /\ ex.i >= ex.num_batches
  /\ ex' = [ex EXCEPT !.pc = "done", !.result = "ok"]
  /\ UNCHANGED <<stackVars, hm>>

\* The network is built on batches of batch_size images.
ExportInit ==
  /\ StackIdle
  /\ hm = HmIdle
  /\ ex \in {ExCall(NetworkEndPoints(batch_size, <<2, 3>>, k, net_sact), is_sact,
                    num_samples, batch_size, file) :
               k \in 0..MaxBlocks, net_sact \in BOOLEAN, is_sact \in BOOLEAN,
               num_samples \in 1..MaxSamples, batch_size \in 1..MaxBatch,
               file \in {"absent", "old"}}

ExportNext ==
  \/ ExportOpen
  \/ ExportGather
  \/ ExportCreateDatasets
  \/ ExportPrepare
  \/ ExportCheck
  \/ ExportSession
  \/ ExportBatch
  \/ ExportReturn

SpecExport == ExportInit /\ [][ExportNext]_vars

\* C7 as stated: when batch_size does not divide num_samples the error comes
\* before every other effect: no file created or truncated, no dataset
\* created, no checkpoint restored, no batch evaluated, no row written.
C7_CheckBeforeAnyEffect ==
  ex.result = "AssertionError" =>
    /\ ex.file = ex.file_before
    /\ ex.keys_to_datasets = EmptyDict
    /\ ~ex.restored
    /\ ex.batches_evaluated = 0
    /\ ex.rows_written = 0

\* C7, amended: when batch_size does not divide num_samples the export stops
\* at the check, before the session: no checkpoint is restored, no batch
\* evaluated and no row written; the output file has then been created or
\* truncated and its datasets created.
C7_CheckBeforeSession ==
  (ex.pc # "idle" /\ ex.num_samples % ex.batch_size # 0) =>
    /\ ex.pc \notin {"session", "batches"}
    /\ ~ex.restored
    /\ ex.batches_evaluated = 0
    /\ ex.rows_written = 0
    /\ ex.result \notin {"ok"}
    /\ ex.result = "AssertionError" =>
         /\ ex.file = "new"
         /\ DOMAIN ex.keys_to_datasets = DOMAIN ex.keys_to_tensors
         /\ TopKey("images") \in DOMAIN ex.keys_to_datasets

C7_Witness ==
  /\ ex.pc = "done" /\ ex.result = "AssertionError"
  /\ ex.num_samples = 4 /\ ex.batch_size = 3
  /\ ex.file_before = "old" /\ ex.file = "new"
  /\ ex.sact /\ TopKey("ponder_cost_map") \in DOMAIN ex.keys_to_datasets

====
